---- MODULE Spec2Model ----
(***************************************************************************)
(* Model of the HSK 4 Chinese tutor (src/app.py): the Streamlit session    *)
(* state (messages, token_tracker, error_count, interaction_history), one  *)
(* script run ("render pass") of main() per widget event, the completion   *)
(* call as an external step that returns or raises, and parse_response /   *)
(* format_message as operators.                                            *)
(*                                                                         *)
(* Python values are tagged records [t, v]; the outcome of a call is       *)
(* [kind |-> "return", value] or [kind |-> "raise", cls, msg].             *)
(* Costs are counted in micro-dollars.  Text is ASCII.  Calls that only    *)
(* draw (the replay loop of lines 260-270, estimate_tokens, the statistics *)
(* panel) change no state and are left out.                                *)
(*                                                                         *)
(* Spec drives main() with the events the page can produce, one widget     *)
(* event per script run.  SpecStubbed drives it with widget calls that may *)
(* return any values, which is the only way the reset branch executes.     *)
(***************************************************************************)
EXTENDS Integers, Sequences, FiniteSets, TLC

VARIABLES
    messages,             \* st.session_state.messages
    token_tracker,        \* st.session_state.token_tracker
    error_count,          \* st.session_state.error_count
    interaction_history,  \* st.session_state.interaction_history
    pc,                   \* "idle" between script runs, "awaiting" inside llm.invoke
    widgets,              \* what the three widgets reported in the current/last run
    response,             \* outcome of llm.invoke in the current/last run
    page,                 \* what the last script run left on the page
    reported,             \* history: totals the completions reported since the tracker was built
    now                   \* logical clock read by datetime.now() in TokenTracker()

vars == <<messages, token_tracker, error_count, interaction_history,
          pc, widgets, response, page, reported, now>>

----------------------------------------------------------------------------
\* Bounds of the model

MaxMessages == 5

MaxResets == 1

----------------------------------------------------------------------------
\* Python values and call outcomes

PyNone == [t |-> "None", v |-> ""]

PyStr(s) == [t |-> "str", v |-> s]

PyInt(n) == [t |-> "int", v |-> n]

PyList(s) == [t |-> "list", v |-> s]

PyDict(d) == [t |-> "dict", v |-> d]

Return(x) == [kind |-> "return", value |-> x]

Raise(c, m) == [kind |-> "raise", cls |-> c, msg |-> m]

\* bool(x) for the values the chat input can report: None and "" are falsy
Truthy(x) == x.t = "str" /\ x.v # ""

----------------------------------------------------------------------------
\* Messages

SYSTEM_PROMPT == "You are a helpful Chinese language tutor ... Format your responses as JSON {...}"

SystemMessage(c) == [type |-> "system", content |-> c]

HumanMessage(c) == [type |-> "human", content |-> c]

AIMessage(c) == [type |-> "ai", content |-> c]

----------------------------------------------------------------------------
\* Inputs: texts typed into the chat input, and reply texts of the model

Prompts == {"", "   ", "ni hao"}

R_plain == "Ni hao! Hen gaoxing renshi ni."

R_quotes == "{'chinese': 'ni hao'}"

R_full == "{\"chinese\": \"ni hao\", \"pinyin\": \"ni3 hao3\", \"english\": \"Hello\", \"corrections\": \"\", \"explanation\": \"Standard greeting.\"}"

R_partial == "{\"chinese\": \"zai jian\", \"tips\": \"zai = again\"}"

R_list == "[1]"

R_str == "\"abc\""

R_int == "5"

R_names == "\"chinese pinyin english corrections explanation\""

Replies == {R_plain, R_quotes, R_full, R_partial, R_list, R_str, R_int, R_names}

\* usage metadata a completion reports: prompt tokens, completion tokens, cost
Usages == {[prompt_tokens |-> 50, completion_tokens |-> 20, cost |-> 2000],
           [prompt_tokens |-> 10, completion_tokens |-> 5, cost |-> 450]}

----------------------------------------------------------------------------
\* json.loads on the reply texts above

json_loads(text) ==
    CASE text = R_full ->
            Return(PyDict([chinese |-> "ni hao", pinyin |-> "ni3 hao3", english |-> "Hello",
                         corrections |-> "", explanation |-> "Standard greeting."]))
      [] text = R_partial ->
            Return(PyDict([chinese |-> "zai jian", tips |-> "zai = again"]))
      [] text = R_list -> Return(PyList(<<PyInt(1)>>))
      [] text = R_str -> Return(PyStr("abc"))
      [] text = R_int -> Return(PyInt(5))
      [] text = R_names -> Return(PyStr("chinese pinyin english corrections explanation"))
      [] OTHER -> Raise("JSONDecodeError", "Expecting value: line 1 column 1 (char 0)")

required_fields == <<"chinese", "pinyin", "english", "corrections", "explanation">>

\* the field names that occur as substrings of a decoded JSON string
FieldNamesIn(s) ==
    IF s = "chinese pinyin english corrections explanation"
    THEN {required_fields[i] : i \in 1..Len(required_fields)}
    ELSE {}

\* `field not in x`
py_not_in(field, x) ==
    CASE x.t = "dict" -> Return(field \notin DOMAIN x.v)
      [] x.t = "list" -> Return(~ \E i \in 1..Len(x.v) : x.v[i].t = "str" /\ x.v[i].v = field)
      [] x.t = "str" -> Return(field \notin FieldNamesIn(x.v))
      [] OTHER -> Raise("TypeError", "argument of type 'int' is not iterable")

\* `x[field] = ""`
py_setitem(x, field) ==
    CASE x.t = "dict" ->
            Return(PyDict([k \in DOMAIN x.v \cup {field} |-> IF k = field THEN "" ELSE x.v[k]]))
      [] x.t = "list" -> Raise("TypeError", "list indices must be integers or slices, not str")
      [] x.t = "str" -> Raise("TypeError", "'str' object does not support item assignment")
      [] OTHER -> Raise("TypeError", "'int' object does not support item assignment")

\* the loop `for field in required_fields: if field not in d: d[field] = ""`
RECURSIVE fill_fields(_, _)
fill_fields(d, fields) ==
    IF fields = <<>> THEN Return(d)
    ELSE LET missing == py_not_in(Head(fields), d) IN
         IF missing.kind = "raise" THEN missing
         ELSE IF missing.value
              THEN LET set == py_setitem(d, Head(fields)) IN
                   IF set.kind = "raise" THEN set
                   ELSE fill_fields(set.value, Tail(fields))
              ELSE fill_fields(d, Tail(fields))

decode_error_reply_blank(response_text) ==
    PyDict([chinese |-> "", pinyin |-> "Error parsing response",
          english |-> "Error parsing response",
          corrections |-> "Error in response format",
          explanation |-> "Please try again"])

\* the dict returned by `except json.JSONDecodeError`
decode_error_reply(response_text) ==
    PyDict([chinese |-> response_text, pinyin |-> "Error parsing response",
          english |-> "Error parsing response",
          corrections |-> "Error in response format",
          explanation |-> "Please try again"])

unexpected_error_reply_short(detail) ==
    PyDict([chinese |-> "Error", pinyin |-> "Error", english |-> "Error",
          corrections |-> detail, explanation |-> "Please try again"])

\* the dict returned by `except Exception as e`, detail = str(e)
unexpected_error_reply(detail) ==
    PyDict([chinese |-> "Error processing response", pinyin |-> "Error",
          english |-> "Error", corrections |-> detail,
          explanation |-> "Please try again"])

parse_response(response_text) ==
    LET decoded == json_loads(response_text) IN
    IF decoded.kind = "raise"
    THEN IF decoded.cls = "JSONDecodeError"
         THEN Return(decode_error_reply(response_text))
         ELSE Return(unexpected_error_reply(decoded.msg))
    ELSE LET filled == fill_fields(decoded.value, required_fields) IN
         IF filled.kind = "raise"
         THEN Return(unexpected_error_reply(filled.msg))
         ELSE filled

\* message_dict.get(key, default)
Get(d, key, default) == IF key \in DOMAIN d THEN d[key] ELSE default

\* format_message: the lines of the formatted text, as <<label, text>> pairs
format_message(message_dict) ==
    IF message_dict.t # "dict"
    THEN <<<<"error", "Error displaying message. Please try again.">>>>
    ELSE LET d == message_dict.v IN
         <<<<"chinese", Get(d, "chinese", "No Chinese text")>>,
           <<"pinyin", Get(d, "pinyin", "No pinyin")>>,
           <<"english", Get(d, "english", "No translation")>>>>
         \o (IF Get(d, "corrections", "") # "" THEN <<<<"Corrections", d["corrections"]>>>> ELSE <<>>)
         \o (IF Get(d, "explanation", "") # "" THEN <<<<"Note", d["explanation"]>>>> ELSE <<>>)
         \o (IF Get(d, "tips", "") # "" THEN <<<<"Tip", d["tips"]>>>> ELSE <<>>)

----------------------------------------------------------------------------
\* TokenTracker

\* TokenTracker.__init__ at time t (the tiktoken encoder is not state)
TokenTracker(t) ==
    [total_tokens |-> 0, prompt_tokens |-> 0, completion_tokens |-> 0,
     total_cost |-> 0, session_start |-> t, history |-> <<>>]

\* TokenTracker.update_totals
update_totals(self, interaction) ==
    LET p == self.prompt_tokens + interaction.prompt_tokens
        c == self.completion_tokens + interaction.completion_tokens
    IN [self EXCEPT !.prompt_tokens = p, !.completion_tokens = c,
                    !.total_tokens = p + c,
                    !.total_cost = self.total_cost + interaction.cost]

\* TokenTracker.add_interaction
add_interaction(self, prompt_tokens, completion_tokens, cost) ==
    LET interaction == [prompt_tokens |-> prompt_tokens,
                        completion_tokens |-> completion_tokens,
                        total_tokens |-> prompt_tokens + completion_tokens,
                        cost |-> cost]
    IN update_totals([self EXCEPT !.history = Append(self.history, interaction)],
                     interaction)

\* TokenTracker.get_session_stats; an average is the pair <<numerator, denominator>>
get_session_stats(self) ==
    [total_interactions |-> Len(self.history),
     total_tokens |-> self.total_tokens,
     prompt_tokens |-> self.prompt_tokens,
     completion_tokens |-> self.completion_tokens,
     average_tokens_per_interaction |->
         IF Len(self.history) > 0 THEN <<self.total_tokens, Len(self.history)>> ELSE <<0, 1>>,
     total_cost |-> self.total_cost,
     average_cost_per_interaction |->
         IF Len(self.history) > 0 THEN <<self.total_cost, Len(self.history)>> ELSE <<0, 1>>]

----------------------------------------------------------------------------
\* Session state and one script run of main()

NoResponse == [kind |-> "none"]

BlankPage == [error |-> FALSE, warning |-> FALSE, confirm_button |-> FALSE, markdown |-> <<>>]

NothingReported == [calls |-> 0, tokens |-> 0, cost |-> 0]

NoWidgets == [prompt |-> PyNone, reset |-> FALSE, confirm |-> FALSE]

\* initialize_session_state on a fresh session
Init ==
    /\ messages = <<SystemMessage(SYSTEM_PROMPT)>>
    /\ token_tracker = TokenTracker(0)
    /\ error_count = 0
    /\ interaction_history = <<>>
    /\ pc = "idle"
    /\ widgets = NoWidgets
    /\ response = NoResponse
    /\ page = BlankPage
    /\ reported = NothingReported
    /\ now = 0

appendHuman_front(msgs, prompt) == <<HumanMessage(prompt)>> \o msgs

\* st.session_state.messages.append(HumanMessage(content=prompt))
appendHuman(msgs, prompt) == Append(msgs, HumanMessage(prompt))

appendAI_twice(msgs, content) == Append(Append(msgs, AIMessage(content)), AIMessage(content))

\* st.session_state.messages.append(AIMessage(content=response.content))
appendAI(msgs, content) == Append(msgs, AIMessage(content))

error_count_skip(ec) == ec

\* st.session_state.error_count += 1
error_count_incr(ec) == ec + 1

should_warn_late(ec) == ec > 3

\* if st.session_state.error_count >= 3
should_warn(ec) == ec >= 3

reset_confirmed_flat(w) == w.confirm

\* if st.sidebar.button("Reset Conversation"): confirm = st.sidebar.button(...); if confirm:
reset_confirmed(w) == w.reset /\ w.confirm

ResetValues_partial(cur, t) ==
    [messages |-> <<SystemMessage(SYSTEM_PROMPT)>>,
     token_tracker |-> TokenTracker(t),
     error_count |-> cur.error_count,
     interaction_history |-> <<>>]

\* the four assignments of the reset branch, executed at time t
ResetValues(cur, t) ==
    [messages |-> <<SystemMessage(SYSTEM_PROMPT)>>,
     token_tracker |-> TokenTracker(t),
     error_count |-> 0,
     interaction_history |-> <<>>]

\* The tail of main() after the chat section: statistics, then the reset control.
\* m, ec, ih, pg are the values the chat section left.  st.rerun() starts a run with
\* no widget event, which redraws the page from the fresh state.
Sidebar(w, m, ec, ih, pg, rep) ==
    IF reset_confirmed(w)
    THEN LET r == ResetValues([messages |-> m, token_tracker |-> token_tracker,
                               error_count |-> ec, interaction_history |-> ih], now + 1)
         IN /\ messages' = r.messages
            /\ token_tracker' = r.token_tracker
            /\ error_count' = r.error_count
            /\ interaction_history' = r.interaction_history
            /\ page' = BlankPage
            /\ reported' = NothingReported
            /\ now' = now + 1
    ELSE /\ messages' = m
         /\ token_tracker' = token_tracker
         /\ error_count' = ec
         /\ interaction_history' = ih
         /\ page' = [pg EXCEPT !.confirm_button = w.reset]
         /\ reported' = rep
         /\ now' = now

\* A script run starts with the widgets reporting w.  With a truthy prompt the run
\* appends the user message and enters llm.invoke; otherwise it runs to its end.
Pass(w) ==
    /\ pc = "idle"
    /\ reset_confirmed(w) => now < MaxResets
    /\ widgets' = w
    /\ response' = NoResponse
    /\ IF Truthy(w.prompt)
       THEN /\ Len(messages) < MaxMessages
            /\ messages' = appendHuman(messages, w.prompt.v)
            /\ pc' = "awaiting"
            /\ page' = BlankPage
            /\ UNCHANGED <<token_tracker, error_count, interaction_history, reported, now>>
       ELSE /\ pc' = "idle"
            /\ Sidebar(w, messages, error_count, interaction_history, BlankPage, reported)

\* the `except Exception` branch of the chat section, then the rest of the run
Failed(rep) ==
    LET ec == error_count_incr(error_count) IN
    Sidebar(widgets, messages, ec, interaction_history,
            [BlankPage EXCEPT !.error = TRUE, !.warning = should_warn(ec)], rep)

\* llm.invoke raises
InvokeRaises ==
    /\ pc = "awaiting"
    /\ pc' = "idle"
    /\ response' = Raise("Exception", "completion call failed")
    /\ UNCHANGED widgets
    /\ Failed(reported)

\* llm.invoke returns a reply with the given content and usage metadata
InvokeReturns(content, usage) ==
    /\ pc = "awaiting"
    /\ pc' = "idle"
    /\ response' = [kind |-> "return", content |-> content, usage |-> usage]
    /\ UNCHANGED widgets
    /\ LET parsed == parse_response(content)
           rep == [calls |-> reported.calls + 1,
                   tokens |-> reported.tokens + usage.prompt_tokens + usage.completion_tokens,
                   cost |-> reported.cost + usage.cost]
       IN
       IF parsed.kind = "raise"
       THEN Failed(rep)
       ELSE Sidebar(widgets,
                    appendAI(messages, content),
                    error_count,
                    Append(interaction_history,
                           [prompt |-> widgets.prompt.v, response |-> parsed.value]),
                    [BlankPage EXCEPT !.markdown = format_message(parsed.value)],
                    rep)

----------------------------------------------------------------------------
\* What the Streamlit front end can report: one widget event per script run

\* the user submits text t in the chat input
ChatSubmit(t) ==
    /\ t \in Prompts
    /\ Pass([prompt |-> PyStr(t), reset |-> FALSE, confirm |-> FALSE])

\* the user clicks "Reset Conversation"
ClickReset ==
    /\ pc = "idle"
    /\ Pass([prompt |-> PyNone, reset |-> TRUE, confirm |-> FALSE])

\* the user clicks "Click again to confirm reset", which exists only if the last
\* run drew it
ClickConfirm ==
    /\ page.confirm_button
    /\ Pass([prompt |-> PyNone, reset |-> FALSE, confirm |-> TRUE])

Next ==
    \/ \E t \in Prompts : ChatSubmit(t)
    \/ ClickReset
    \/ ClickConfirm
    \/ InvokeRaises
    \/ \E c \in Replies, u \in Usages : InvokeReturns(c, u)

Spec == Init /\ [][Next]_vars

\* main() driven with stubbed widgets: the chat input and the two button calls may
\* return any values (the second button is called only if the first returned True)
AnyWidgets ==
    {w \in [prompt : {PyNone} \cup {PyStr(t) : t \in Prompts},
            reset : BOOLEAN, confirm : BOOLEAN] : w.confirm => w.reset}

StubbedRun == \E w \in AnyWidgets : Pass(w)

NextStubbed ==
    \/ StubbedRun
    \/ InvokeRaises
    \/ \E c \in Replies, u \in Usages : InvokeReturns(c, u)

SpecStubbed == Init /\ [][NextStubbed]_vars

----------------------------------------------------------------------------
\* Helpers of the properties

Last(s) == s[Len(s)]

IsPrefix(a, b) == Len(a) <= Len(b) /\ SubSeq(b, 1, Len(a)) = a

CountType(msgs, ty) == Cardinality({i \in 1..Len(msgs) : msgs[i].type = ty})

\* the reply texts json.loads rejects
UndecodableReplies == {R_plain, R_quotes}

\* the reply texts that decode to a list, a string or a number without the fields
NonObjectReplies == {R_list, R_str, R_int}

FailureDetail(text) ==
    CASE text = R_list -> "list indices must be integers or slices, not str"
      [] text = R_str -> "'str' object does not support item assignment"
      [] text = R_int -> "argument of type 'int' is not iterable"

----------------------------------------------------------------------------
\* C1: a submit turn whose completion call raises leaves the transcript equal to
\* the old transcript plus the new user message at the end (the submit step appends
\* exactly that message, the failing step appends nothing), raises the error
\* counter by exactly one and leaves the usage tracker (totals, cost, history)
\* as it was.
C1_FailedTurn ==
    [][ /\ (pc = "idle" /\ pc' = "awaiting") =>
              /\ messages' = Append(messages, HumanMessage(widgets'.prompt.v))
              /\ error_count' = error_count
              /\ token_tracker' = token_tracker
        /\ (pc = "awaiting" /\ response'.kind = "raise") =>
              /\ messages' = messages
              /\ Last(messages').type = "human"
              /\ Last(messages').content = widgets.prompt.v
              /\ error_count' = error_count + 1
              /\ token_tracker' = token_tracker
      ]_vars

C1_Witness ==
    /\ pc = "idle"
    /\ response.kind = "raise"
    /\ page.error
    /\ Len(messages) >= 4
    /\ Last(messages).type = "human"

\* C2: between turns, with no reset, the session statistics equal what the
\* successful completions reported: total_tokens is the sum of their prompt and
\* completion tokens, total_cost the sum of their costs, total_interactions their
\* number.
C2_EveryCompletionRecorded ==
    pc = "idle" =>
        LET stats == get_session_stats(token_tracker) IN
        /\ stats.total_tokens = reported.tokens
        /\ stats.total_cost = reported.cost
        /\ stats.total_interactions = reported.calls

\* C3: the transcript is never empty, its first message is the system message
\* with the system prompt, and no later message is a system message.
C3_SystemMessageFirst ==
    /\ Len(messages) >= 1
    /\ messages[1] = SystemMessage(SYSTEM_PROMPT)
    /\ \A i \in 2..Len(messages) : messages[i].type # "system"

C3_Witness ==
    /\ now >= 1
    /\ Len(messages) >= 4
    /\ error_count >= 1
    /\ Len(interaction_history) >= 1

\* C4 as stated: whenever no completion call is outstanding, the messages after
\* the system message strictly alternate user, assistant, ..., and the transcript
\* does not end in an unanswered user message.
C4_StrictAlternation ==
    pc = "idle" =>
        /\ \A i \in 2..Len(messages) :
              messages[i].type = (IF i % 2 = 0 THEN "human" ELSE "ai")
        /\ Len(messages) > 1 => Last(messages).type = "ai"

\* C4 as amended: whenever no completion call is outstanding, every assistant
\* message directly follows a user message (so no two assistant messages are
\* adjacent) and the message after the system message is a user message; user
\* messages may be adjacent or last only after failed turns: while the error
\* counter is 0 the messages strictly alternate and end in an assistant message.
\* While a call is outstanding the transcript ends in the user message.
C4_AssistantFollowsUser ==
    /\ \A i \in 2..Len(messages) :
          /\ messages[i].type = "ai" => messages[i - 1].type = "human"
          /\ i = 2 => messages[i].type = "human"
    /\ (pc = "idle" /\ error_count = 0) =>
          \A i \in 2..Len(messages) :
              /\ messages[i].type = (IF i % 2 = 0 THEN "human" ELSE "ai")
              /\ i = Len(messages) => messages[i].type = "ai"
    /\ pc = "awaiting" => Last(messages).type = "human"

C4_Witness ==
    /\ pc = "idle"
    /\ error_count >= 1
    /\ \E i \in 2..(Len(messages) - 1) :
          messages[i].type = "human" /\ messages[i + 1].type = "human"
    /\ Last(messages).type = "ai"

\* C5: a script run in which the reset is confirmed ends with the transcript
\* equal to the single system message, the interaction history empty, a new
\* tracker with zero tokens, zero cost and no history, and the error counter 0;
\* and no step shortens the transcript, lowers the error counter or replaces the
\* tracker without doing all of this at once.
C5_ResetReplacesTogether ==
    [][ LET Fresh ==
              /\ messages' = <<SystemMessage(SYSTEM_PROMPT)>>
              /\ interaction_history' = <<>>
              /\ token_tracker'.prompt_tokens = 0
              /\ token_tracker'.completion_tokens = 0
              /\ token_tracker'.history = <<>>
              /\ get_session_stats(token_tracker').total_tokens = 0
              /\ get_session_stats(token_tracker').total_cost = 0
              /\ get_session_stats(token_tracker').total_interactions = 0
              /\ token_tracker'.session_start > token_tracker.session_start
              /\ error_count' = 0
        IN
        /\ (pc' = "idle" /\ widgets'.reset /\ widgets'.confirm) => Fresh
        /\ (\/ Len(messages') < Len(messages)
            \/ error_count' < error_count
            \/ token_tracker' # token_tracker) => Fresh
      ]_vars

C5_Witness ==
    /\ pc = "idle"
    /\ widgets.reset /\ widgets.confirm
    /\ response.kind = "raise"
    /\ now >= 1
    /\ messages = <<SystemMessage(SYSTEM_PROMPT)>>
    /\ error_count = 0

\* C6: a submission whose text is empty or only whitespace leaves the transcript
\* unchanged and does not start a completion call.
C6_BlankSubmissionRejected ==
    [][ (pc = "idle" /\ widgets'.prompt.t = "str" /\ widgets'.prompt.v \in {"", "   "}) =>
            (messages' = messages /\ pc' = "idle")
      ]_vars

\* C7: after a completion that returned a text json.loads rejects, the turn has
\* ended outside the error path with that text appended verbatim as the assistant
\* message, and the parsed record has chinese equal to the text and the four
\* fixed strings in pinyin, english, corrections and explanation.
C7_UndecodableReplyKept ==
    (pc = "idle" /\ response.kind = "return" /\ response.content \in UndecodableReplies) =>
        /\ ~page.error
        /\ Last(messages) = AIMessage(response.content)
        /\ Len(interaction_history) >= 1
        /\ LET r == Last(interaction_history).response IN
           /\ r.t = "dict"
           /\ DOMAIN r.v = {"chinese", "pinyin", "english", "corrections", "explanation"}
           /\ r.v.chinese = response.content
           /\ r.v.pinyin = "Error parsing response"
           /\ r.v.english = "Error parsing response"
           /\ r.v.corrections = "Error in response format"
           /\ r.v.explanation = "Please try again"

C7_Witness ==
    /\ pc = "idle"
    /\ response.kind = "return"
    /\ response.content = R_quotes
    /\ Last(messages) = AIMessage(R_quotes)
    /\ error_count = 0

\* C8 as stated: after a completion whose text decodes to a JSON array, string or
\* number that lacks the required fields, the parsed record has chinese, pinyin
\* and english all equal to "Error", corrections equal to the failure detail and
\* explanation "Please try again".
C8_AllThreeError ==
    (pc = "idle" /\ response.kind = "return" /\ response.content \in NonObjectReplies) =>
        LET r == Last(interaction_history).response IN
        /\ r.t = "dict"
        /\ r.v.chinese = "Error"
        /\ r.v.pinyin = "Error"
        /\ r.v.english = "Error"
        /\ r.v.corrections = FailureDetail(response.content)
        /\ r.v.explanation = "Please try again"

\* C8 as amended: in that case the parsed record has chinese equal to
\* "Error processing response", pinyin and english equal to "Error", corrections
\* equal to the failure detail and explanation "Please try again".
C8_SecondTierSentinel ==
    (pc = "idle" /\ response.kind = "return" /\ response.content \in NonObjectReplies) =>
        /\ Len(interaction_history) >= 1
        /\ LET r == Last(interaction_history).response IN
           /\ r.t = "dict"
           /\ r.v.chinese = "Error processing response"
           /\ r.v.pinyin = "Error"
           /\ r.v.english = "Error"
           /\ r.v.corrections = FailureDetail(response.content)
           /\ r.v.explanation = "Please try again"

C8_Witness ==
    /\ pc = "idle"
    /\ response.kind = "return"
    /\ response.content = R_str
    /\ Last(interaction_history).response.t = "dict"
    /\ Last(interaction_history).response.v.corrections = FailureDetail(R_str)

\* C9: between turns the error counter equals the number of user messages left
\* unanswered since the last reset, i.e. the failed turns; a turn that succeeds
\* leaves it as it is; the warning is shown exactly in a run whose turn failed
\* with the counter then at 3 or more; and a run that shows the warning changes
\* nothing but the counter: transcript, tracker and interaction history stay.
C9_ErrorCountPolicy ==
    [][ /\ pc' = "idle" =>
              error_count' = CountType(messages', "human") - CountType(messages', "ai")
        /\ page'.warning <=> (page'.error /\ error_count' >= 3)
        /\ page'.error => error_count' = error_count + 1
        /\ (pc = "awaiting" /\ response'.kind = "return"
              /\ ~(widgets.reset /\ widgets.confirm)) => error_count' = error_count
        /\ page'.warning =>
              /\ messages' = messages
              /\ token_tracker' = token_tracker
              /\ interaction_history' = interaction_history
      ]_vars

C9_Witness ==
    /\ pc = "idle"
    /\ error_count >= 3
    /\ response.kind = "return"
    /\ Last(messages).type = "ai"
    /\ ~page.warning

\* C10: with the events the page can produce, the confirm button is drawn only in
\* a run in which "Reset Conversation" reported a click, no run sees both buttons
\* report a click, and so no step ever resets anything: transcript and interaction
\* history only grow, the error counter never decreases, the tracker stays.
C10_ResetUnreachable ==
    [][ /\ page'.confirm_button => widgets'.reset
        /\ ~(widgets'.reset /\ widgets'.confirm)
        /\ IsPrefix(messages, messages')
        /\ IsPrefix(interaction_history, interaction_history')
        /\ error_count' >= error_count
        /\ token_tracker' = token_tracker
      ]_vars

C10_Witness ==
    /\ pc = "idle"
    /\ widgets.confirm
    /\ error_count >= 1
    /\ Len(interaction_history) >= 1
    /\ Len(messages) >= 4

====
